---- MODULE Spec2Model ----
(***************************************************************************)
(* Model of collect_ips.py: concurrent discovery of IPv4 candidates from   *)
(* remote text sources, TCP reachability probing, and sorted output.       *)
(*                                                                         *)
(* A Python str is a sequence of one-character strings.  A candidate is a  *)
(* pair <<ip, port>> with ip a str and port an integer or None.            *)
(***************************************************************************)
EXTENDS Integers, Sequences, FiniteSets, TLC

\* ---------------------------------------------------------------------
\* Program constants
\* ---------------------------------------------------------------------
URLS == <<"bestiphk", "bestipjp", "bestipsg">>

MAX_WORKERS == 5

RETRY_LIMIT == 2

MAX_CHECK_WORKERS == 30

\* Python's None in the port position of a candidate (never a valid port).
None == -1

\* What parse_ip_port returns for a rejected token (Python None, falsy).
Rejected == <<>>

\* ---------------------------------------------------------------------
\* Characters
\* ---------------------------------------------------------------------
DigitChars == <<"0", "1", "2", "3", "4", "5", "6", "7", "8", "9">>

Digits == {DigitChars[i] : i \in 1..10}

Letters == {"f", "o", "x"}

\* str.isdigit() on one character, and the regex class \d
IsDigitChar(c) == c \in Digits

\* the regex class \w, which \b is defined from
IsWordChar(c) == c \in Digits \cup Letters \cup {"_"}

DigitVal(c) == (CHOOSE i \in 1..10 : DigitChars[i] = c) - 1

\* code point of a character (Python compares str by code point)
CharCode(c) ==
    CASE c = " " -> 32
      [] c = "." -> 46
      [] c \in Digits -> 48 + DigitVal(c)
      [] c = ":" -> 58
      [] c = "_" -> 95
      [] c = "f" -> 102
      [] c = "o" -> 111
      [] c = "x" -> 120

\* ---------------------------------------------------------------------
\* str helpers used by is_valid_ip / parse_ip_port
\* ---------------------------------------------------------------------
\* index of the first occurrence of sep in s at or after i, 0 when absent
RECURSIVE IndexOf(_, _, _)
IndexOf(s, sep, i) ==
    IF i > Len(s) THEN 0
    ELSE IF s[i] = sep THEN i
    ELSE IndexOf(s, sep, i + 1)

\* s.split(sep): the list of parts between every occurrence of sep
RECURSIVE Split(_, _)
Split(s, sep) ==
    LET k == IndexOf(s, sep, 1)
    IN  IF k = 0 THEN <<s>>
        ELSE <<SubSeq(s, 1, k - 1)>> \o Split(SubSeq(s, k + 1, Len(s)), sep)

\* part.isdigit(): non-empty and every character a digit
IsDigit(part) == Len(part) > 0 /\ \A i \in 1..Len(part) : IsDigitChar(part[i])

\* int(part) for an all-digit part
RECURSIVE ParseInt(_)
ParseInt(part) ==
    IF Len(part) = 0 THEN 0
    ELSE 10 * ParseInt(SubSeq(part, 1, Len(part) - 1)) + DigitVal(part[Len(part)])

\* the octet test of is_valid_ip: all digits and 0 <= int(part) <= 255
OctetOk(part) == IsDigit(part) /\ ParseInt(part) >= 0 /\ ParseInt(part) <= 255

is_valid_ip(ip) ==
    LET parts == Split(ip, ".")
    IN  /\ Len(parts) = 4
        /\ \A i \in 1..4 : OctetOk(parts[i])

\* a port range test that lets port 0 through
PortInRangeFromZero(port) == 0 <= port /\ port <= 65535

\* the port range test of parse_ip_port
PortInRange(port) == 1 <= port /\ port <= 65535

parse_ip_port(s) ==
    LET k == IndexOf(s, ":", 1)
    IN  IF k > 0
        THEN LET ip_part == SubSeq(s, 1, k - 1)
                 port_part == SubSeq(s, k + 1, Len(s))
             IN  IF ~is_valid_ip(ip_part) THEN Rejected
                 ELSE IF ~IsDigit(port_part) THEN Rejected
                 ELSE IF PortInRange(ParseInt(port_part))
                      THEN <<ip_part, ParseInt(port_part)>>
                      ELSE Rejected
        ELSE IF is_valid_ip(s) THEN <<s, None>> ELSE Rejected

\* ---------------------------------------------------------------------
\* IP_PATTERN = \b\d{1,3}(?:\.\d{1,3}){3}(?::\d{1,5})?\b and re.findall
\* ---------------------------------------------------------------------
\* \b at the position between text[k-1] and text[k]
WordAt(text, k) == k >= 1 /\ k <= Len(text) /\ IsWordChar(text[k])

WordBoundary(text, k) == WordAt(text, k - 1) # WordAt(text, k)

\* n digits starting at position i
DigitsAt(text, i, n) ==
    /\ i + n - 1 <= Len(text)
    /\ \A k \in i..(i + n - 1) : IsDigitChar(text[k])

CharAt(text, i, c) == i <= Len(text) /\ text[i] = c

\* A way to match the pattern is the number of digits taken by each of the
\* four groups and by the port group (0: the optional group is skipped).
MatchWays == (1..3) \X (1..3) \X (1..3) \X (1..3) \X (0..5)

\* end (exclusive) of the match that takes w at position i
WayEnd(i, w) ==
    i + w[1] + 1 + w[2] + 1 + w[3] + 1 + w[4] + (IF w[5] > 0 THEN 1 + w[5] ELSE 0)

WayFits(text, i, w) ==
    LET p2 == i + w[1] + 1
        p3 == p2 + w[2] + 1
        p4 == p3 + w[3] + 1
        pp == p4 + w[4]
    IN  /\ WordBoundary(text, i)
        /\ DigitsAt(text, i, w[1]) /\ CharAt(text, i + w[1], ".")
        /\ DigitsAt(text, p2, w[2]) /\ CharAt(text, p2 + w[2], ".")
        /\ DigitsAt(text, p3, w[3]) /\ CharAt(text, p3 + w[3], ".")
        /\ DigitsAt(text, p4, w[4])
        /\ (w[5] > 0 => CharAt(text, pp, ":") /\ DigitsAt(text, pp + 1, w[5]))
        /\ WordBoundary(text, WayEnd(i, w))

\* Greedy quantifiers: the backtracking matcher tries more digits first, group
\* by group from the left, and the optional port before skipping it.
WayRank(w) == (((w[1] * 4 + w[2]) * 4 + w[3]) * 4 + w[4]) * 6 + w[5]

\* end (exclusive) of the match the regex engine reports at i, 0 when none
MatchAt(text, i) ==
    IF ~WordBoundary(text, i) THEN 0
    ELSE LET fits == {w \in MatchWays : WayFits(text, i, w)}
         IN  IF fits = {} THEN 0
             ELSE WayEnd(i, CHOOSE w \in fits :
                                \A v \in fits : WayRank(v) <= WayRank(w))

\* re.findall(IP_PATTERN, text): leftmost non-overlapping matches from i on
RECURSIVE FindAll(_, _)
FindAll(text, i) ==
    IF i > Len(text) THEN <<>>
    ELSE LET e == MatchAt(text, i)
         IN  IF e > 0 THEN <<SubSeq(text, i, e - 1)>> \o FindAll(text, e)
             ELSE FindAll(text, i + 1)

\* the results list of extract_ips_from_text before deduplication
RECURSIVE ParsedResults(_)
ParsedResults(raw_matches) ==
    IF raw_matches = <<>> THEN <<>>
    ELSE LET parsed == parse_ip_port(Head(raw_matches))
         IN  (IF parsed # Rejected THEN <<parsed>> ELSE <<>>)
             \o ParsedResults(Tail(raw_matches))

\* an extraction that keeps only the address of every parsed tuple
ExtractDroppingPorts(text) ==
    LET results == ParsedResults(FindAll(text, 1))
    IN  {<<results[i][1], None>> : i \in 1..Len(results)}

\* list(set(results)): the distinct parsed tuples (their order is arbitrary
\* and every caller only iterates them into a set)
extract_ips_from_text(text) ==
    LET results == ParsedResults(FindAll(text, 1))
    IN  {results[i] : i \in 1..Len(results)}

\* ---------------------------------------------------------------------
\* sorted(alive_ip_set, key=lambda x: (x[0], x[1]))
\* ---------------------------------------------------------------------
\* a < b for Python str: by code point, a proper prefix being smaller
RECURSIVE StrLess(_, _)
StrLess(a, b) ==
    IF Len(b) = 0 THEN FALSE
    ELSE IF Len(a) = 0 THEN TRUE
    ELSE IF CharCode(Head(a)) # CharCode(Head(b))
         THEN CharCode(Head(a)) < CharCode(Head(b))
    ELSE StrLess(Tail(a), Tail(b))

\* a key that orders by port before the address
SortKeyLessPortFirst(x, y) == x[2] < y[2] \/ (x[2] = y[2] /\ StrLess(x[1], y[1]))

\* key(x) < key(y) for the key (x[0], x[1]): tuples compare lexicographically
SortKeyLess(x, y) == StrLess(x[1], y[1]) \/ (x[1] = y[1] /\ x[2] < y[2])

\* x placed into an already sorted list, after the elements not greater (stable)
RECURSIVE InsertSorted(_, _)
InsertSorted(sorted, x) ==
    IF sorted = <<>> THEN <<x>>
    ELSE IF SortKeyLess(x, Head(sorted)) THEN <<x>> \o sorted
    ELSE <<Head(sorted)>> \o InsertSorted(Tail(sorted), x)

\* sorted(order, key=...) for the iteration order of the set
RECURSIVE Sorted(_)
Sorted(order) ==
    IF order = <<>> THEN <<>>
    ELSE InsertSorted(Sorted(SubSeq(order, 1, Len(order) - 1)), order[Len(order)])

\* the orders in which a Python set may iterate its elements
IterationOrders(S) ==
    {o \in [1..Cardinality(S) -> S] : \A i, j \in 1..Cardinality(S) : o[i] = o[j] => i = j}

Range(seq) == {seq[i] : i \in 1..Len(seq)}

\* ---------------------------------------------------------------------
\* Inputs: what the sources serve, and the configured default ports
\* ---------------------------------------------------------------------
IP_1234 == <<"1", ".", "2", ".", "3", ".", "4">>

IP_5678 == <<"5", ".", "6", ".", "7", ".", "8">>

SP == <<" ">>

\* "1.2.3.4 foo 5.6.7.8:9000 1.2.3.4"
TextScenario ==
    IP_1234 \o SP \o <<"f", "o", "o">> \o SP \o IP_5678
    \o <<":", "9", "0", "0", "0">> \o SP \o IP_1234

\* "999.1.1.1 1.2.3.4:70000 1.2.3.4:443"
TextNoise ==
    <<"9", "9", "9", ".", "1", ".", "1", ".", "1">> \o SP
    \o IP_1234 \o <<":", "7", "0", "0", "0", "0">> \o SP
    \o IP_1234 \o <<":", "4", "4", "3">>

\* "foo"
TextEmpty == <<"f", "o", "o">>

\* "1.2.3.4:80"
TextPort80 == IP_1234 \o <<":", "8", "0">>

\* "1.2.3.4"
TextBare == IP_1234

Texts == <<TextScenario, TextNoise, TextEmpty, TextPort80, TextBare>>

\* how many of Texts a source may serve
NumTexts == 2

TextIds == 1..NumTexts

\* extract_ips_from_text applied to the text with this id
Extracted == [t \in 1..Len(Texts) |-> extract_ips_from_text(Texts[t])]

\* the values common_ports is configured with: the shipped [443], and a list
\* of two ports as in the alternative the source keeps in its comment
PortConfigs == {<<443>>, <<80, 443>>}

SourceIds == 1..Len(URLS)

\* ---------------------------------------------------------------------
\* State
\* ---------------------------------------------------------------------
VARIABLES
    pc,             \* position of the main thread
    content,        \* source -> id of the text the URL serves
    common_ports,   \* the configured default port list
    ip_set,         \* global: candidates (ip, port_or_None)
    alive_ip_set,   \* global: verified (ip, port)
    fsubmitted,     \* fetch_and_extract_ips: number of URLS submitted
    fstate,         \* source -> state of its fetch_url future
    retry,          \* source -> the retry argument of the running fetch_url
    attempts,       \* source -> number of urlopen calls made so far
    fresult,        \* source -> the list its future returned
    fyielded,       \* sources whose future the as_completed loop has handled
    future_to_item, \* filter_alive_ips: candidate -> its check_ports_for_ip task
    alive_items,    \* filter_alive_ips: the (ip, port) list being built
    probe_log,      \* every finished check_port_open call: <<ip, port, result>>
    output,         \* the (ip, port) lines written to the output file, in order
    fn, arg, ret    \* a single call of a pure function: which, input, result

pipeVars ==
    <<pc, content, common_ports, ip_set, alive_ip_set, fsubmitted, fstate, retry,
      attempts, fresult, fyielded, future_to_item, alive_items, probe_log, output>>

pureVars == <<fn, arg, ret>>

vars == <<pipeVars, pureVars>>

\* the locals of fetch_and_extract_ips before any future exists
FetchLocalsInit ==
    /\ fsubmitted = 0
    /\ fstate = [u \in SourceIds |-> "none"]
    /\ retry = [u \in SourceIds |-> 0]
    /\ attempts = [u \in SourceIds |-> 0]
    /\ fresult = [u \in SourceIds |-> {}]
    /\ fyielded = {}

Init ==
    /\ pc = "discover_submit"
    /\ content \in [SourceIds -> TextIds]
    /\ common_ports \in PortConfigs
    /\ ip_set = {}
    /\ alive_ip_set = {}
    /\ FetchLocalsInit
    /\ future_to_item = <<>>
    /\ alive_items = <<>>
    /\ probe_log = {}
    /\ output = <<>>
    /\ fn = "none" /\ arg = <<>> /\ ret = <<>>

\* ---------------------------------------------------------------------
\* fetch_url and fetch_and_extract_ips
\* ---------------------------------------------------------------------
\* a future that counts as finished only when its fetch succeeded
FetchFinishedOkOnly(u) == fstate[u] = "ok"

\* future.done(): fetch_url has returned, with candidates or with []
FetchFinished(u) == fstate[u] \in {"ok", "failed"}

RunningFetches == {u \in SourceIds : fstate[u] = "running"}

\* executor.submit(fetch_url, url) for the next url of URLS
DiscoverSubmit ==
    /\ pc = "discover_submit"
    /\ fsubmitted < Len(URLS)
    /\ fsubmitted' = fsubmitted + 1
    /\ fstate' = [fstate EXCEPT ![fsubmitted + 1] = "queued"]
    /\ pc' = IF fsubmitted + 1 = Len(URLS) THEN "discover_collect" ELSE pc
    /\ UNCHANGED <<content, common_ports, ip_set, alive_ip_set, retry, attempts,
                   fresult, fyielded, future_to_item, alive_items, probe_log,
                   output, pureVars>>

\* a worker of the pool takes the queued call: fetch_url(url, retry=0) opens the URL
FetchStart(u) ==
    /\ fstate[u] = "queued"
    /\ Cardinality(RunningFetches) < MAX_WORKERS
    /\ fstate' = [fstate EXCEPT ![u] = "running"]
    /\ attempts' = [attempts EXCEPT ![u] = 1]
    /\ UNCHANGED <<pc, content, common_ports, ip_set, alive_ip_set, fsubmitted,
                   retry, fresult, fyielded, future_to_item, alive_items,
                   probe_log, output, pureVars>>

\* the attempt in flight succeeds: return extract_ips_from_text(content)
FetchSucceed(u) ==
    /\ fstate[u] = "running"
    /\ fstate' = [fstate EXCEPT ![u] = "ok"]
    /\ fresult' = [fresult EXCEPT ![u] = Extracted[content[u]]]
    /\ UNCHANGED <<pc, content, common_ports, ip_set, alive_ip_set, fsubmitted,
                   retry, attempts, fyielded, future_to_item, alive_items,
                   probe_log, output, pureVars>>

\* a retry test that allows one retry too many
ShouldRetryOffByOne(r) == r <= RETRY_LIMIT

\* the test of the except branch
ShouldRetry(r) == r < RETRY_LIMIT

\* a retry counter shared by the calls of all sources
RetryCountersSharedBump(counters, u) == [v \in SourceIds |-> counters[v] + 1]

\* the recursive call fetch_url(url, retry + 1): retry is a parameter of the
\* call, so each source's chain of calls has its own counter
RetryCountersAfterFailure(counters, u) == [counters EXCEPT ![u] = counters[u] + 1]

\* the attempt in flight raises: retry by the recursive call, or give up with []
FetchFail(u) ==
    /\ fstate[u] = "running"
    /\ IF ShouldRetry(retry[u])
       THEN /\ retry' = RetryCountersAfterFailure(retry, u)
            /\ attempts' = [attempts EXCEPT ![u] = attempts[u] + 1]
            /\ UNCHANGED <<fstate, fresult>>
       ELSE /\ fstate' = [fstate EXCEPT ![u] = "failed"]
            /\ fresult' = [fresult EXCEPT ![u] = {}]
            /\ UNCHANGED <<retry, attempts>>
    /\ UNCHANGED <<pc, content, common_ports, ip_set, alive_ip_set, fsubmitted,
                   fyielded, future_to_item, alive_items, probe_log, output,
                   pureVars>>

\* a loop that stops waiting after the first finished future
AllFetchesYieldedAny(yielded) == yielded # {}

\* the as_completed loop is over once it has yielded these futures
AllFetchesYielded(yielded) == yielded = SourceIds

\* a loop body that replaces ip_set by the result instead of adding to it
MergedIntoOverwrite(set, ips) == ips

\* ip_set after the loop body has added the tuples of one result
MergedInto(set, ips) == set \cup ips

\* one iteration of the as_completed loop: a finished future is yielded and its
\* tuples are added to ip_set; after the last one the with block is left
DiscoverCollect(u) ==
    /\ pc = "discover_collect"
    /\ FetchFinished(u)
    /\ u \notin fyielded
    /\ ip_set' = MergedInto(ip_set, fresult[u])
    /\ fyielded' = fyielded \cup {u}
    /\ pc' = IF AllFetchesYielded(fyielded \cup {u}) THEN "discover_return" ELSE pc
    /\ UNCHANGED <<content, common_ports, alive_ip_set, fsubmitted, fstate, retry,
                   attempts, fresult, future_to_item, alive_items, probe_log,
                   output, pureVars>>

\* fetch_and_extract_ips returns: its executor and futures go out of scope
DiscoverReturn ==
    /\ pc = "discover_return"
    /\ pc' = IF ip_set = {} THEN "filter_collect" ELSE "filter_submit"
    /\ fsubmitted' = 0
    /\ fstate' = [u \in SourceIds |-> "none"]
    /\ retry' = [u \in SourceIds |-> 0]
    /\ attempts' = [u \in SourceIds |-> 0]
    /\ fresult' = [u \in SourceIds |-> {}]
    /\ fyielded' = {}
    /\ UNCHANGED <<content, common_ports, ip_set, alive_ip_set, future_to_item,
                   alive_items, probe_log, output, pureVars>>

\* ---------------------------------------------------------------------
\* check_port_open, check_ports_for_ip and filter_alive_ips
\* ---------------------------------------------------------------------
Min(a, b) == IF a < b THEN a ELSE b

Max(a, b) == IF a > b THEN a ELSE b

\* a pool with one worker per port, however many ports there are
PortPoolSizeUnbounded(ports) == Max(1, Len(ports))

\* max_workers of the pool check_ports_for_ip creates for its ports
PortPoolSize(ports) == Min(4, Max(1, Len(ports)))

\* a port choice that ignores the explicit port of the candidate
PortsToCheckAlwaysDefault(port) == common_ports

\* the ports_to_check of a candidate with this port
PortsToCheck(port) == IF port = None THEN common_ports ELSE <<port>>

Tasks == DOMAIN future_to_item

\* the task executor.submit(check_ports_for_ip, ip, ports_to_check) creates:
\* st is the state of the future, nsub the number of probes the task has
\* submitted, pst the state of each probe, sock the state of the socket each
\* probe creates, seen the probes its as_completed loop has handled, yielded
\* whether the caller's loop has handled the task
NewTask(c) ==
    [ip |-> c[1],
     ports |-> PortsToCheck(c[2]),
     st |-> "queued",
     nsub |-> 0,
     pst |-> [i \in 1..Len(PortsToCheck(c[2])) |-> "none"],
     sock |-> [i \in 1..Len(PortsToCheck(c[2])) |-> "none"],
     seen |-> {},
     open_ports |-> <<>>,
     yielded |-> FALSE]

\* one iteration of "for ip, port in ip_set": the set is iterated in any order
FilterSubmit(c) ==
    /\ pc = "filter_submit"
    /\ c \in ip_set
    /\ c \notin Tasks
    /\ future_to_item' = (c :> NewTask(c)) @@ future_to_item
    /\ pc' = IF Tasks \cup {c} = ip_set THEN "filter_collect" ELSE pc
    /\ UNCHANGED <<content, common_ports, ip_set, alive_ip_set, fsubmitted, fstate,
                   retry, attempts, fresult, fyielded, alive_items, probe_log,
                   output, pureVars>>

RunningTasks == {c \in Tasks : future_to_item[c].st = "running"}

\* a worker of the outer pool takes the queued call of check_ports_for_ip
TaskStart(c) ==
    /\ c \in Tasks
    /\ future_to_item[c].st = "queued"
    /\ Cardinality(RunningTasks) < MAX_CHECK_WORKERS
    /\ future_to_item' = [future_to_item EXCEPT ![c].st = "running"]
    /\ UNCHANGED <<pc, content, common_ports, ip_set, alive_ip_set, fsubmitted,
                   fstate, retry, attempts, fresult, fyielded, alive_items,
                   probe_log, output, pureVars>>

\* executor.submit(check_port_open, ip, port, timeout) for the next port
ProbeSubmit(c) ==
    /\ c \in Tasks
    /\ future_to_item[c].st = "running"
    /\ future_to_item[c].nsub < Len(future_to_item[c].ports)
    /\ future_to_item' =
         [future_to_item EXCEPT ![c].nsub = @ + 1,
                                ![c].pst[future_to_item[c].nsub + 1] = "queued"]
    /\ UNCHANGED <<pc, content, common_ports, ip_set, alive_ip_set, fsubmitted,
                   fstate, retry, attempts, fresult, fyielded, alive_items,
                   probe_log, output, pureVars>>

ProbeIds(c) == 1..Len(future_to_item[c].ports)

RunningProbes(c) == {i \in ProbeIds(c) : future_to_item[c].pst[i] = "running"}

\* a worker of the task's pool takes check_port_open: the socket connects
ProbeStart(c, i) ==
    /\ c \in Tasks
    /\ i \in ProbeIds(c)
    /\ future_to_item[c].pst[i] = "queued"
    /\ Cardinality(RunningProbes(c)) < PortPoolSize(future_to_item[c].ports)
    /\ future_to_item' = [future_to_item EXCEPT ![c].pst[i] = "running",
                                                ![c].sock[i] = "open"]
    /\ UNCHANGED <<pc, content, common_ports, ip_set, alive_ip_set, fsubmitted,
                   fstate, retry, attempts, fresult, fyielded, alive_items,
                   probe_log, output, pureVars>>

\* The states the socket may be in when check_port_open returns. After a
\* successful connect sock.close() has run. When connect raised, the function
\* returns from the except branch without closing: the socket is closed only
\* if and when the runtime finalizes the unreferenced object, at once under
\* reference counting, at some later collection otherwise.
SockAtReturn(connected) == IF connected THEN {"closed"} ELSE {"open", "closed"}

\* check_port_open returns: True when connect succeeded, False on any exception
ProbeFinish(c, i, connected) ==
    /\ c \in Tasks
    /\ i \in ProbeIds(c)
    /\ future_to_item[c].pst[i] = "running"
    /\ \E s \in SockAtReturn(connected) :
         future_to_item' =
           [future_to_item EXCEPT ![c].pst[i] = IF connected THEN "open" ELSE "closed",
                                  ![c].sock[i] = s]
    /\ probe_log' = probe_log
         \cup {<<future_to_item[c].ip, future_to_item[c].ports[i], connected>>}
    /\ UNCHANGED <<pc, content, common_ports, ip_set, alive_ip_set, fsubmitted,
                   fstate, retry, attempts, fresult, fyielded, alive_items,
                   output, pureVars>>

\* a loop body that records the port whatever the probe returned
OpenPortsAfterAny(open_ports, port, result) == Append(open_ports, port)

\* open_ports after the loop body has handled a probe with this result
OpenPortsAfter(open_ports, port, result) ==
    IF result THEN Append(open_ports, port) ELSE open_ports

\* one iteration of the as_completed loop of check_ports_for_ip
ProbeCollect(c, i) ==
    /\ c \in Tasks
    /\ i \in ProbeIds(c)
    /\ future_to_item[c].st = "running"
    /\ future_to_item[c].nsub = Len(future_to_item[c].ports)
    /\ future_to_item[c].pst[i] \in {"open", "closed"}
    /\ i \notin future_to_item[c].seen
    /\ future_to_item' =
         [future_to_item EXCEPT
            ![c].seen = @ \cup {i},
            ![c].open_ports =
               OpenPortsAfter(@, future_to_item[c].ports[i],
                              future_to_item[c].pst[i] = "open")]
    /\ UNCHANGED <<pc, content, common_ports, ip_set, alive_ip_set, fsubmitted,
                   fstate, retry, attempts, fresult, fyielded, alive_items,
                   probe_log, output, pureVars>>

\* a loop that stops waiting after the first finished probe
AllProbesHandledAny(seen, ids) == seen # {}

\* the as_completed loop of check_ports_for_ip is over once it has yielded
\* the futures of these probes
AllProbesHandled(seen, ids) == seen = ids

\* check_ports_for_ip leaves its with block and returns open_ports; its
\* executor and the probes' futures go out of scope, and the sockets of its
\* probes are followed no further
TaskReturn(c) ==
    /\ c \in Tasks
    /\ future_to_item[c].st = "running"
    /\ future_to_item[c].nsub = Len(future_to_item[c].ports)
    /\ AllProbesHandled(future_to_item[c].seen, ProbeIds(c))
    /\ future_to_item' =
         [future_to_item EXCEPT ![c].st = "done",
                                ![c].sock = [i \in ProbeIds(c) |-> "none"]]
    /\ UNCHANGED <<pc, content, common_ports, ip_set, alive_ip_set, fsubmitted,
                   fstate, retry, attempts, fresult, fyielded, alive_items,
                   probe_log, output, pureVars>>

\* a loop body that records only the first open port of a task
AliveTuplesFirstOnly(ip, open_ports) ==
    IF open_ports = <<>> THEN <<>> ELSE <<<<ip, Head(open_ports)>>>>

\* the (ip, p) tuples the loop body appends for one finished task
RECURSIVE AliveTuples(_, _)
AliveTuples(ip, open_ports) ==
    IF open_ports = <<>> THEN <<>>
    ELSE <<<<ip, Head(open_ports)>>>> \o AliveTuples(ip, Tail(open_ports))

\* one iteration of the as_completed loop of filter_alive_ips
FilterCollect(c) ==
    /\ pc = "filter_collect"
    /\ c \in Tasks
    /\ future_to_item[c].st = "done"
    /\ ~future_to_item[c].yielded
    /\ future_to_item' = [future_to_item EXCEPT ![c].yielded = TRUE]
    /\ alive_items' =
         alive_items \o AliveTuples(future_to_item[c].ip, future_to_item[c].open_ports)
    /\ UNCHANGED <<pc, content, common_ports, ip_set, alive_ip_set, fsubmitted,
                   fstate, retry, attempts, fresult, fyielded, probe_log, output,
                   pureVars>>

\* an update that keeps only the tuple that arrived last
AliveUpdatedLastOnly(set, items) ==
    IF items = <<>> THEN set ELSE set \cup {items[Len(items)]}

\* alive_ip_set after alive_ip_set.update(alive_items)
AliveUpdated(set, items) == set \cup Range(items)

\* an update that runs as soon as the result of one task has been handled
SomeTaskYielded == \E c \in Tasks : future_to_item[c].yielded

\* the as_completed loop of filter_alive_ips is over: every task was yielded
AllTasksYielded == \A c \in Tasks : future_to_item[c].yielded

\* the loop is over, the with block is left, alive_ip_set.update(alive_items)
\* runs and filter_alive_ips returns: its futures and lists go out of scope
FilterReturn ==
    /\ pc = "filter_collect"
    /\ AllTasksYielded
    /\ alive_ip_set' = AliveUpdated(alive_ip_set, alive_items)
    /\ future_to_item' = <<>>
    /\ alive_items' = <<>>
    /\ pc' = "write"
    /\ UNCHANGED <<content, common_ports, ip_set, fsubmitted, fstate, retry,
                   attempts, fresult, fyielded, probe_log, output, pureVars>>

\* ---------------------------------------------------------------------
\* get_ip_location_and_write
\* ---------------------------------------------------------------------
\* one line per element of sorted(alive_ip_set, key=...), the set being
\* iterated in some order
GetIpLocationAndWrite ==
    /\ pc = "write"
    /\ \E order \in IterationOrders(alive_ip_set) : output' = Sorted(order)
    /\ pc' = "done"
    /\ UNCHANGED <<content, common_ports, ip_set, alive_ip_set, fsubmitted, fstate,
                   retry, attempts, fresult, fyielded, future_to_item, alive_items,
                   probe_log, pureVars>>

Next ==
    \/ DiscoverSubmit
    \/ \E u \in SourceIds : FetchStart(u)
    \/ \E u \in SourceIds : FetchSucceed(u)
    \/ \E u \in SourceIds : FetchFail(u)
    \/ \E u \in SourceIds : DiscoverCollect(u)
    \/ DiscoverReturn
    \/ \E c \in ip_set : FilterSubmit(c)
    \/ \E c \in ip_set : TaskStart(c)
    \/ \E c \in ip_set : ProbeSubmit(c)
    \/ \E c \in ip_set : \E i \in 1..Len(PortsToCheck(c[2])) : ProbeStart(c, i)
    \/ \E c \in ip_set : \E i \in 1..Len(PortsToCheck(c[2])) :
          \E connected \in BOOLEAN : ProbeFinish(c, i, connected)
    \/ \E c \in ip_set : \E i \in 1..Len(PortsToCheck(c[2])) : ProbeCollect(c, i)
    \/ \E c \in ip_set : TaskReturn(c)
    \/ \E c \in ip_set : FilterCollect(c)
    \/ FilterReturn
    \/ GetIpLocationAndWrite

Spec == Init /\ [][Next]_vars

\* One run for the termination argument: the first source serves
\* "1.2.3.4 foo 5.6.7.8:9000 1.2.3.4", the second "1.2.3.4:80", the third no
\* address ("foo"), and there are two default ports. Each fetch still
\* succeeds or fails at any attempt and each probe connects or not.
FairContent == <<1, 4, 3>>

InitFair ==
    /\ pc = "discover_submit"
    /\ content = [u \in SourceIds |-> FairContent[u]]
    /\ common_ports = <<80, 443>>
    /\ ip_set = {}
    /\ alive_ip_set = {}
    /\ FetchLocalsInit
    /\ future_to_item = <<>>
    /\ alive_items = <<>>
    /\ probe_log = {}
    /\ output = <<>>
    /\ fn = "none" /\ arg = <<>> /\ ret = <<>>

\* Every network call returns and the threads are scheduled: as long as some
\* thread can take a step, a step is taken.
FairSpec == InitFair /\ [][Next]_vars /\ WF_vars(Next)

\* ---------------------------------------------------------------------
\* The pipeline with more default ports than the per-candidate pool has workers
\* ---------------------------------------------------------------------
\* a configuration of common_ports with five ports
WidePorts == <<80, 443, 1080, 8080, 8443>>

\* every source serves "1.2.3.4": one candidate, without a port
InitWide ==
    /\ pc = "discover_submit"
    /\ content = [u \in SourceIds |-> 5]
    /\ common_ports = WidePorts
    /\ ip_set = {}
    /\ alive_ip_set = {}
    /\ FetchLocalsInit
    /\ future_to_item = <<>>
    /\ alive_items = <<>>
    /\ probe_log = {}
    /\ output = <<>>
    /\ fn = "none" /\ arg = <<>> /\ ret = <<>>

SpecWide == InitWide /\ [][Next]_vars

\* ---------------------------------------------------------------------
\* Single calls of the pure functions, on inputs drawn from bounded sets
\* ---------------------------------------------------------------------
\* Spellings of one dot-separated group: its characters, whether they are all
\* digits, and the number they spell (None when they spell none).
OctetForms ==
    << [s |-> <<"1">>, digits |-> TRUE, n |-> 1],
       [s |-> <<"2", "5", "5">>, digits |-> TRUE, n |-> 255],
       [s |-> <<"2", "5", "6">>, digits |-> TRUE, n |-> 256],
       [s |-> <<"0", "1">>, digits |-> TRUE, n |-> 1],
       [s |-> <<"1", "x">>, digits |-> FALSE, n |-> None],
       [s |-> <<"0">>, digits |-> TRUE, n |-> 0],
       [s |-> <<"9", "9", "9">>, digits |-> TRUE, n |-> 999],
       [s |-> <<>>, digits |-> FALSE, n |-> None] >>

\* how many of OctetForms the tokens are built from
NumOctetForms == 5

\* Spellings of the part after the address: absent, or ':' and these characters.
PortForms ==
    << [present |-> FALSE, s |-> <<>>, digits |-> FALSE, n |-> None],
       [present |-> TRUE, s |-> <<"8", "0">>, digits |-> TRUE, n |-> 80],
       [present |-> TRUE, s |-> <<"0">>, digits |-> TRUE, n |-> 0],
       [present |-> TRUE, s |-> <<"1">>, digits |-> TRUE, n |-> 1],
       [present |-> TRUE, s |-> <<"6", "5", "5", "3", "5">>, digits |-> TRUE, n |-> 65535],
       [present |-> TRUE, s |-> <<"6", "5", "5", "3", "6">>, digits |-> TRUE, n |-> 65536],
       [present |-> TRUE, s |-> <<"7", "0", "0", "0", "0">>, digits |-> TRUE, n |-> 70000],
       [present |-> TRUE, s |-> <<"0", "0", "0", "8", "0">>, digits |-> TRUE, n |-> 80],
       [present |-> TRUE, s |-> <<"8", "x">>, digits |-> FALSE, n |-> None],
       [present |-> TRUE, s |-> <<>>, digits |-> FALSE, n |-> None] >>

\* the groups joined by '.'
RECURSIVE JoinDots(_)
JoinDots(octets) ==
    IF Len(octets) = 0 THEN <<>>
    ELSE IF Len(octets) = 1 THEN octets[1].s
    ELSE octets[1].s \o <<".">> \o JoinDots(Tail(octets))

\* the token a choice of groups and port part spells
TokenOf(t) ==
    JoinDots(t.octets) \o (IF t.port.present THEN <<":">> \o t.port.s ELSE <<>>)

ParseInputs ==
    {[octets |-> [i \in 1..k |-> OctetForms[o[i]]], port |-> PortForms[p]] :
        k \in 3..5, o \in [1..5 -> 1..NumOctetForms], p \in 1..Len(PortForms)}

\* Tokens a text is made of, separated by single spaces.
\* "1.2.3.4", "01.2.3.4", "1.2.3.4:80", "1.2.3.4:080", "foo", "999.1.1.1"
TextTokens ==
    << IP_1234,
       <<"0">> \o IP_1234,
       IP_1234 \o <<":", "8", "0">>,
       IP_1234 \o <<":", "0", "8", "0">>,
       <<"f", "o", "o">>,
       <<"9", "9", "9", ".", "1", ".", "1", ".", "1">> >>

\* the longest text, in tokens
MaxTokens == 3

RECURSIVE JoinSpaces(_)
JoinSpaces(ids) ==
    IF Len(ids) = 0 THEN <<>>
    ELSE IF Len(ids) = 1 THEN TextTokens[ids[1]]
    ELSE TextTokens[ids[1]] \o SP \o JoinSpaces(Tail(ids))

ExtractInputs ==
    UNION {[1..k -> 1..Len(TextTokens)] : k \in 0..MaxTokens}

IP_1111 == <<"1", ".", "1", ".", "1", ".", "1">>

IP_2222 == <<"2", ".", "2", ".", "2", ".", "2">>

IP_10001 == <<"1", "0", ".", "0", ".", "0", ".", "1">>

IP_9001 == <<"9", ".", "0", ".", "0", ".", "1">>

\* the verified endpoints the sorted sets are made of
SortUniverse ==
    {<<IP_2222, 80>>, <<IP_1111, 443>>, <<IP_1111, 80>>, <<IP_10001, 80>>,
     <<IP_9001, 80>>, <<IP_9001, 8080>>}

\* the largest set sorted
MaxInserted == 3

\* the orders in which the elements of a set of at most MaxInserted endpoints
\* were inserted
SortInputs ==
    {o \in UNION {[1..k -> SortUniverse] : k \in 0..MaxInserted} :
        \A i, j \in 1..Len(o) : o[i] = o[j] => i = j}

Pending == <<>>

Returned(value) == <<"returned", value>>

InitPure ==
    /\ pc = "idle"
    /\ content = [u \in SourceIds |-> 1]
    /\ common_ports = <<443>>
    /\ ip_set = {}
    /\ alive_ip_set = {}
    /\ FetchLocalsInit
    /\ future_to_item = <<>>
    /\ alive_items = <<>>
    /\ probe_log = {}
    /\ output = <<>>
    /\ ret = Pending
    /\ \/ fn = "parse_ip_port" /\ arg \in ParseInputs
       \/ fn = "extract_ips_from_text" /\ arg \in ExtractInputs
       \/ fn = "sorted" /\ arg \in SortInputs

\* parse_ip_port(token)
CallParse ==
    /\ fn = "parse_ip_port"
    /\ ret = Pending
    /\ ret' = Returned(parse_ip_port(TokenOf(arg)))
    /\ UNCHANGED <<pipeVars, fn, arg>>

\* extract_ips_from_text(text)
CallExtract ==
    /\ fn = "extract_ips_from_text"
    /\ ret = Pending
    /\ ret' = Returned(extract_ips_from_text(JoinSpaces(arg)))
    /\ UNCHANGED <<pipeVars, fn, arg>>

\* sorted(s, key=...) of the set s the insertions built, iterated in some order
CallSorted ==
    /\ fn = "sorted"
    /\ ret = Pending
    /\ \E order \in IterationOrders(Range(arg)) : ret' = Returned(Sorted(order))
    /\ UNCHANGED <<pipeVars, fn, arg>>

NextPure == CallParse \/ CallExtract \/ CallSorted

SpecPure == InitPure /\ [][NextPure]_vars

\* ---------------------------------------------------------------------
\* Properties
\* ---------------------------------------------------------------------

\* C1: fetch_url never makes more than RETRY_LIMIT+1 attempts for a source; it
\* gives up (empty list) only after exactly RETRY_LIMIT+1 failed attempts; a
\* successful attempt returns the candidates extracted from that source, and
\* once a fetch has returned no further attempt is made and its result stays.
C1_RetryBound ==
    /\ [](\A u \in SourceIds :
            /\ attempts[u] <= RETRY_LIMIT + 1
            /\ (fstate[u] = "failed" =>
                  attempts[u] = RETRY_LIMIT + 1 /\ fresult[u] = {})
            /\ (fstate[u] = "ok" =>
                  /\ attempts[u] >= 1
                  /\ fresult[u] = Extracted[content[u]]))
    /\ [][\A u \in SourceIds :
            (fstate[u] \in {"ok", "failed"} /\ fstate'[u] \in {"ok", "failed"}) =>
               /\ attempts'[u] = attempts[u]
               /\ fresult'[u] = fresult[u]
               /\ fstate'[u] = fstate[u]]_vars

\* one source has given up after RETRY_LIMIT+1 attempts and another has
\* succeeded on its last allowed attempt
C1_Witness ==
    \E u, v \in SourceIds :
        /\ fstate[u] = "failed" /\ attempts[u] = RETRY_LIMIT + 1
        /\ fstate[v] = "ok" /\ attempts[v] = RETRY_LIMIT + 1
        /\ fresult[v] # {}

\* C2: a source that exhausted its retries contributes nothing and does not
\* stop discovery: when fetch_and_extract_ips is about to return, ip_set is
\* exactly the union of the candidates extracted from the sources that
\* succeeded, whatever subset of the sources failed; and while the loop runs
\* every result already handled is in ip_set.
C2_FailedSourcesContributeNothing ==
    /\ \A u \in fyielded : fresult[u] \subseteq ip_set
    /\ \A u \in SourceIds : fstate[u] = "failed" => fresult[u] = {}
    /\ pc = "discover_return" =>
         ip_set = UNION {Extracted[content[u]] : u \in {v \in SourceIds : fstate[v] = "ok"}}
    /\ (pc = "discover_collect" /\ \A u \in SourceIds : FetchFinished(u)) =>
         \E u \in SourceIds : ENABLED DiscoverCollect(u)
    /\ pc = "discover_return" => ENABLED DiscoverReturn

\* discovery is about to return with one source failed for good and two
\* sources that succeeded with different candidates
C2_Witness ==
    /\ pc = "discover_return"
    /\ \E u, v, w \in SourceIds :
         /\ fstate[u] = "failed"
         /\ fstate[v] = "ok" /\ fstate[w] = "ok"
         /\ fresult[v] # {} /\ fresult[w] # {} /\ fresult[v] # fresult[w]

\* the port set the reachability phase is to probe for candidate c
C3_PortSet(c) == IF c[2] # None THEN {c[2]} ELSE Range(common_ports)

\* the ports of candidate c on which a probe has been started
C3_Attempted(c) ==
    {future_to_item[c].ports[i] :
        i \in {j \in ProbeIds(c) : future_to_item[c].pst[j] \in {"running", "open", "closed"}}}

\* C3: for every candidate, a probe is only ever started on a port of its
\* port set ({P} for an explicit port P, the default ports otherwise), at its
\* own address, and when its task has finished the ports probed are exactly
\* that set; every probe ever made is one of some candidate's port set.
C3_ExactPortSet ==
    /\ \A c \in Tasks :
         /\ future_to_item[c].ip = c[1]
         /\ C3_Attempted(c) \subseteq C3_PortSet(c)
         /\ future_to_item[c].st = "done" => C3_Attempted(c) = C3_PortSet(c)
    /\ \A e \in probe_log :
         \E c \in ip_set : c[1] = e[1] /\ e[2] \in C3_PortSet(c)

\* the tasks of a candidate with an explicit port, which differs from every
\* default port, and of a candidate without a port, probed on two default
\* ports, have both finished
C3_Witness ==
    \E c, d \in Tasks :
        /\ c[2] # None /\ c[2] \notin Range(common_ports)
        /\ future_to_item[c].st = "done"
        /\ d[2] = None /\ Len(common_ports) = 2
        /\ future_to_item[d].st = "done"

\* the probes of candidate c that found the port open
C4_OpenProbes(c) == {i \in ProbeIds(c) : future_to_item[c].pst[i] = "open"}

\* C4: when the result of a candidate's task is handled, exactly one (address,
\* port) tuple per open port of that candidate is appended to alive_items (none
\* when every probe failed, k when k of its n ports are open), and what
\* filter_alive_ips adds to alive_ip_set is exactly the tuples so collected.
C4_OnePerOpenPort ==
    /\ [][\A c \in Tasks :
            (/\ c \in DOMAIN future_to_item'
             /\ ~future_to_item[c].yielded
             /\ future_to_item'[c].yielded) =>
               LET added == SubSeq(alive_items', Len(alive_items) + 1, Len(alive_items'))
               IN  /\ SubSeq(alive_items', 1, Len(alive_items)) = alive_items
                   /\ Len(added) = Cardinality(C4_OpenProbes(c))
                   /\ Range(added) =
                        {<<c[1], future_to_item[c].ports[i]>> : i \in C4_OpenProbes(c)}]_vars
    /\ [][(pc = "filter_collect" /\ pc' = "write") =>
            alive_ip_set' = alive_ip_set \cup Range(alive_items)]_vars

\* a candidate with one of its two ports open and a candidate with every probe
\* failed have been handled
C4_Witness ==
    /\ pc = "filter_collect"
    /\ \E c, d \in Tasks :
         /\ future_to_item[c].yielded /\ future_to_item[d].yielded
         /\ Len(future_to_item[c].ports) = 2
         /\ Cardinality(C4_OpenProbes(c)) = 1
         /\ C4_OpenProbes(d) = {}
         /\ Len(alive_items) = 1

\* C5: every element of alive_ip_set has a concrete port, was reported open by
\* a probe of that address and port, and has the address of a candidate.
C5_VerifiedOnlyAfterConnect ==
    \A e \in alive_ip_set :
        /\ e[2] # None
        /\ e[2] \in 1..65535
        /\ <<e[1], e[2], TRUE>> \in probe_log
        /\ \E c \in ip_set : c[1] = e[1]

\* the run has verified an endpoint of a candidate without a port while
\* another probe failed
C5_Witness ==
    /\ pc = "write"
    /\ \E e \in alive_ip_set : <<e[1], None>> \in ip_set
    /\ \E l \in probe_log : ~l[3]

\* C6: fetch_and_extract_ips returns only after every fetch has resolved: once
\* the main thread is past the as_completed loop no fetch is queued or in
\* flight, and at the return every source has finished, has been handled by the
\* loop, and its result is in ip_set.
C6_ReturnsAfterAllResolved ==
    /\ pc \notin {"discover_submit", "discover_collect"} =>
         \A u \in SourceIds : fstate[u] \notin {"queued", "running"}
    /\ pc = "discover_return" =>
         \A u \in SourceIds :
             /\ FetchFinished(u)
             /\ u \in fyielded
             /\ fresult[u] \subseteq ip_set

\* discovery is about to return after a source needed a retry and another
\* failed for good
C6_Witness ==
    /\ pc = "discover_return"
    /\ \E u, v \in SourceIds :
         /\ fstate[u] = "ok" /\ attempts[u] = 2
         /\ fstate[v] = "failed"

\* x comes before y in the order of the output: by address as a string,
\* then by port
C7_Before(x, y) == StrLess(x[1], y[1]) \/ (x[1] = y[1] /\ x[2] < y[2])

C7_ExampleSet == {<<IP_2222, 80>>, <<IP_1111, 443>>, <<IP_1111, 80>>}

C7_ExampleSorted == << <<IP_1111, 80>>, <<IP_1111, 443>>, <<IP_2222, 80>> >>

\* C7: whatever the order of insertion and of iteration, the sequence iterated
\* for output holds every endpoint of the set once, ascending by address as a
\* dotted-decimal string and then by port; the order is therefore unique, and
\* it is the stated one for the example set.
C7_DeterministicOrder ==
    (fn = "sorted" /\ ret # Pending) =>
        LET out == ret[2]
        IN  /\ Len(out) = Cardinality(Range(arg))
            /\ Range(out) = Range(arg)
            /\ \A i, j \in 1..Len(out) : i < j => C7_Before(out[i], out[j])
            /\ Range(arg) = C7_ExampleSet => out = C7_ExampleSorted

\* the example set, inserted in the order of the claim, has been sorted
C7_Witness ==
    /\ fn = "sorted"
    /\ arg = << <<IP_2222, 80>>, <<IP_1111, 443>>, <<IP_1111, 80>> >>
    /\ ret = Returned(C7_ExampleSorted)

\* C8: when every source serves "1.2.3.4 foo 5.6.7.8:9000 1.2.3.4" and returns
\* it, discovery ends with the candidates {(1.2.3.4, None), (5.6.7.8, 9000)};
\* and with default ports [443] and probes that report 1.2.3.4:443 and
\* 5.6.7.8:9000 open, the output is [(1.2.3.4, 443), (5.6.7.8, 9000)], in
\* every interleaving.
C8_EndToEnd ==
    (\A u \in SourceIds : Texts[content[u]] = TextScenario) =>
        /\ (pc = "discover_return" /\ \A u \in SourceIds : fstate[u] = "ok") =>
              ip_set = {<<IP_1234, None>>, <<IP_5678, 9000>>}
        /\ (/\ pc = "done"
            /\ common_ports = <<443>>
            /\ probe_log = {<<IP_1234, 443, TRUE>>, <<IP_5678, 9000, TRUE>>}) =>
              output = << <<IP_1234, 443>>, <<IP_5678, 9000>> >>

\* the scenario has run to its end
C8_Witness ==
    /\ \A u \in SourceIds : Texts[content[u]] = TextScenario
    /\ pc = "done"
    /\ common_ports = <<443>>
    /\ ip_set = {<<IP_1234, None>>, <<IP_5678, 9000>>}
    /\ probe_log = {<<IP_1234, 443, TRUE>>, <<IP_5678, 9000, TRUE>>}
    /\ Len(output) = 2

\* the token has four dot-separated all-digit groups in [0,255] and, if it has
\* a port part, an all-digit port in [1,65535]
C9_InBounds(t) ==
    /\ Len(t.octets) = 4
    /\ \A i \in 1..4 : t.octets[i].digits /\ t.octets[i].n \in 0..255
    /\ t.port.present => t.port.digits /\ t.port.n \in 1..65535

\* the token matches the coarse pattern \d{1,3}(\.\d{1,3}){3}(:\d{1,5})?
C9_Coarse(t) ==
    /\ Len(t.octets) = 4
    /\ \A i \in 1..4 : t.octets[i].digits /\ Len(t.octets[i].s) \in 1..3
    /\ t.port.present => t.port.digits /\ Len(t.port.s) \in 1..5

\* C9: parse_ip_port accepts every token whose groups and port are within
\* bounds, returning the address as written and the port as a number (None
\* without a port part), and rejects as a whole every token that matches the
\* coarse pattern but violates a numeric bound.
C9_ParseBounds ==
    (fn = "parse_ip_port" /\ ret # Pending) =>
        /\ C9_InBounds(arg) =>
              ret[2] = <<JoinDots(arg.octets),
                         IF arg.port.present THEN arg.port.n ELSE None>>
        /\ (C9_Coarse(arg) /\ ~C9_InBounds(arg)) => ret[2] = Rejected

\* a token with the largest group and the largest port has been accepted
C9_Witness ==
    /\ fn = "parse_ip_port"
    /\ ret # Pending
    /\ ret[2] # Rejected
    /\ arg.port.n = 65535
    /\ \E i \in 1..4 : arg.octets[i].n = 255

\* the identity of a candidate by the numeric value of its address
C10_Identity(c) ==
    <<[i \in 1..4 |-> ParseInt(Split(c[1], ".")[i])], c[2]>>

\* C10: extract_ips_from_text yields one candidate per distinct (address,
\* port) identity, the address being identified by its four numeric octets,
\* and yields the empty set for a text without a matching substring.
C10_OnePerIdentity ==
    (fn = "extract_ips_from_text" /\ ret # Pending) =>
        /\ \A c, d \in ret[2] : C10_Identity(c) = C10_Identity(d) => c = d
        /\ FindAll(JoinSpaces(arg), 1) = <<>> => ret[2] = {}

\* C11: the phases do not overlap. Outside the submit and as_completed loops of
\* fetch_and_extract_ips no fetch is queued or in flight, and no probe task
\* exists before that function has returned; ip_set is empty when discovery
\* starts and changes only in the as_completed loop of discovery; alive_ip_set
\* is empty until filter_alive_ips updates it and changes in no other step.
C11_PhasesDoNotOverlap ==
    /\ [](/\ pc \notin {"discover_submit", "discover_collect"} =>
               \A u \in SourceIds : fstate[u] \notin {"queued", "running"}
          /\ Tasks # {} =>
               /\ pc \in {"filter_submit", "filter_collect"}
               /\ \A u \in SourceIds : fstate[u] = "none"
          /\ pc = "discover_submit" => ip_set = {}
          /\ pc \in {"discover_submit", "discover_collect", "discover_return",
                     "filter_submit", "filter_collect"} => alive_ip_set = {})
    /\ [][/\ ip_set' # ip_set => pc = "discover_collect" /\ Tasks = {}
          /\ alive_ip_set' # alive_ip_set =>
               /\ pc = "filter_collect" /\ pc' = "write"
               /\ ip_set' = ip_set
          /\ pc \in {"write", "done"} =>
               ip_set' = ip_set /\ alive_ip_set' = alive_ip_set]_vars

\* a probe is in flight while the result of another candidate has already
\* been handled, after a discovery that found three candidates
C11_Witness ==
    /\ pc = "filter_collect"
    /\ Cardinality(ip_set) = 3
    /\ alive_items # <<>>
    /\ \E c \in Tasks : \E i \in ProbeIds(c) : future_to_item[c].pst[i] = "running"

C13_WorkerStep ==
    \/ fstate' # fstate /\ pc' = pc
    \/ retry' # retry /\ pc' = pc
    \/ /\ pc' = pc
       /\ DOMAIN future_to_item' = DOMAIN future_to_item
       /\ \E c \in Tasks :
            \/ future_to_item'[c].st # future_to_item[c].st
            \/ future_to_item'[c].pst # future_to_item[c].pst
            \/ future_to_item'[c].seen # future_to_item[c].seen

\* C13: insertions into ip_set and alive_ip_set have a single owner, the main
\* thread. No step of a worker thread changes either set; ip_set changes only
\* in an iteration of the main thread's as_completed loop, in which no worker
\* moves; alive_ip_set changes only in the main thread's update, when every
\* task and probe has finished; and each set is read (iterated) by the main
\* thread only when no thread is left that could insert into it.
C13_SingleWriter ==
    /\ [][/\ C13_WorkerStep => ip_set' = ip_set /\ alive_ip_set' = alive_ip_set
          /\ ip_set' # ip_set =>
               /\ pc = "discover_collect"
               /\ fyielded' # fyielded
               /\ fstate' = fstate /\ retry' = retry /\ fresult' = fresult
          /\ alive_ip_set' # alive_ip_set =>
               /\ pc = "filter_collect"
               /\ \A c \in Tasks :
                    /\ future_to_item[c].st = "done"
                    /\ \A i \in ProbeIds(c) :
                         future_to_item[c].pst[i] \in {"open", "closed"}]_vars
    /\ [](/\ pc = "filter_submit" =>
               \A u \in SourceIds : fstate[u] \notin {"queued", "running"}
          /\ pc = "write" => Tasks = {})

\* the main thread has inserted the result of one source into ip_set while
\* the fetch of another source is still in flight
C13_Witness ==
    /\ pc = "discover_collect"
    /\ ip_set # {}
    /\ \E u \in SourceIds : fstate[u] = "running"

\* the (address, port) pairs some probe reported open
C14_ReportedOpen == {<<l[1], l[2]>> : l \in {m \in probe_log : m[3]}}

\* C14: the sets depend only on the outcomes, not on the order of arrival.
\* While discovery collects, ip_set is the union of the results handled so
\* far, and at its return the union of what the sources that succeeded
\* extracted; after the reachability phase the probes made are those of the
\* candidates' port sets and alive_ip_set is exactly the pairs reported open.
\* Both are functions of the outcomes alone, so that every interleaving with
\* the same outcomes ends with the same sets.
C14_OrderIndependent ==
    /\ pc = "discover_collect" => ip_set = UNION {fresult[u] : u \in fyielded}
    /\ pc = "discover_return" =>
         ip_set = UNION {Extracted[content[u]] :
                            u \in {v \in SourceIds : fstate[v] = "ok"}}
    /\ pc \in {"write", "done"} =>
         /\ alive_ip_set = C14_ReportedOpen
         /\ {<<l[1], l[2]>> : l \in probe_log} =
               UNION {{<<c[1], p>> : p \in C3_PortSet(c)} : c \in ip_set}

\* the reachability phase is over with three candidates, two endpoints
\* verified and a probe that failed
C14_Witness ==
    /\ pc = "write"
    /\ Cardinality(ip_set) = 3
    /\ Cardinality(alive_ip_set) = 2
    /\ \E l \in probe_log : ~l[3]

\* C15: when every network call returns and the threads are scheduled, the run
\* terminates whatever fails: every submitted fetch finishes, discovery
\* completes, the reachability phase completes, and the output is written.
C15_Terminates ==
    /\ <>(pc = "done")
    /\ \A u \in SourceIds :
         (fstate[u] \in {"queued", "running"}) ~> (fstate[u] \in {"ok", "failed"})
    /\ (pc = "discover_collect") ~> (pc = "discover_return")
    /\ (pc \in {"filter_submit", "filter_collect"}) ~> (pc = "write")

\* the run has ended although every probe failed
C15_Witness ==
    /\ pc = "done"
    /\ Cardinality(ip_set) = 3
    /\ Cardinality(probe_log) >= 3
    /\ \A l \in probe_log : ~l[3]

\* the task of candidate c has probed its whole port set to completion
C16_TaskComplete(c) ==
    LET t == future_to_item[c] IN
      /\ t.st = "done" /\ t.yielded
      /\ t.ports = PortsToCheck(c[2])
      /\ Cardinality(Range(t.ports)) = Len(t.ports)
      /\ t.nsub = Len(t.ports)
      /\ t.seen = ProbeIds(c)
      /\ \A i \in ProbeIds(c) :
           /\ t.pst[i] \in {"open", "closed"}
           /\ <<t.ip, t.ports[i], t.pst[i] = "open">> \in probe_log

\* the order of the states a probe goes through
C16_Rank(st) ==
    CASE st = "none" -> 0 [] st = "queued" -> 1 [] st = "running" -> 2
      [] OTHER -> 3

\* C16: filter_alive_ips returns only after every candidate's full port set has
\* been probed to completion. At the step that returns there is a task for
\* every candidate of ip_set, for every port of its port set one probe was
\* submitted and has finished, and none is queued or running; a probe goes
\* from submitted to running to finished once, and a finished probe is never
\* run again.
C16_ProbedToCompletion ==
    [][/\ (pc = "filter_collect" /\ pc' = "write") =>
            /\ Tasks = ip_set
            /\ \A c \in Tasks : C16_TaskComplete(c)
       /\ \A c \in Tasks : c \in DOMAIN future_to_item' =>
            \A i \in ProbeIds(c) :
              LET a == future_to_item[c].pst[i]
                  b == future_to_item'[c].pst[i]
              IN  /\ C16_Rank(b) \in {C16_Rank(a), C16_Rank(a) + 1}
                  /\ C16_Rank(a) = 3 => b = a]_vars

\* filter_alive_ips has returned after probing three candidates, one of them
\* on both default ports, with probes that connected and probes that failed
C16_Witness ==
    /\ pc = "write"
    /\ Cardinality(ip_set) = 3
    /\ Len(common_ports) = 2
    /\ \E c \in ip_set : c[2] = None
    /\ Cardinality({<<l[1], l[2]>> : l \in probe_log}) = 3
    /\ \E l \in probe_log : l[3]
    /\ \E l \in probe_log : ~l[3]

\* C18: the attempts for one source are strictly sequential. The attempt in
\* flight for a source is attempt retry + 1 and there is no other; a new
\* attempt starts only in the step in which the attempt in flight fails; the
\* retry counter only increases, by one, and never exceeds RETRY_LIMIT; and a
\* step that fails or retries one source leaves the state, the retry counter
\* and the attempt count of every other source unchanged.
C18_SequentialAttempts ==
    /\ [](\A u \in SourceIds :
            /\ retry[u] \in 0..RETRY_LIMIT
            /\ fstate[u] \in {"none", "queued"} => attempts[u] = 0 /\ retry[u] = 0
            /\ fstate[u] \in {"running", "ok", "failed"} => attempts[u] = retry[u] + 1)
    /\ [][pc # "discover_return" =>
            \A u \in SourceIds :
              /\ retry'[u] \in {retry[u], retry[u] + 1}
              /\ attempts'[u] \in {attempts[u], attempts[u] + 1}
              /\ attempts'[u] = attempts[u] + 1 =>
                   /\ fstate'[u] = "running"
                   /\ \/ fstate[u] = "queued" /\ attempts[u] = 0
                      \/ fstate[u] = "running" /\ retry'[u] = retry[u] + 1
              /\ (\/ retry'[u] # retry[u]
                  \/ attempts'[u] # attempts[u]
                  \/ fstate'[u] # fstate[u]) =>
                   \A v \in SourceIds \ {u} :
                     /\ retry'[v] = retry[v]
                     /\ attempts'[v] = attempts[v]
                     /\ fstate'[v] = fstate[v]
                     /\ fresult'[v] = fresult[v]]_vars

\* one source is at its last attempt while another, started with it, is still
\* at its first and a third has already succeeded at its second
C18_Witness ==
    \E u, v, w \in SourceIds :
      /\ fstate[u] = "running" /\ retry[u] = RETRY_LIMIT
      /\ fstate[v] = "running" /\ retry[v] = 0 /\ attempts[v] = 1
      /\ fstate[w] = "ok" /\ retry[w] = 1

\* C17: check_port_open returns True exactly when the connection completed and
\* False on any failure, and on every path the socket it created is closed
\* when it returns: no probe that has returned has left its socket open.
C17_SocketClosedAtReturn ==
    \A c \in Tasks : \A i \in ProbeIds(c) :
      LET t == future_to_item[c] IN
        /\ t.pst[i] = "open" => <<t.ip, t.ports[i], TRUE>> \in probe_log
        /\ t.pst[i] = "closed" => <<t.ip, t.ports[i], FALSE>> \in probe_log
        /\ t.pst[i] \in {"open", "closed"} => t.sock[i] # "open"

====
